---- MODULE Spec2Model ----
(***************************************************************************)
(* The session subsystem of the ivevents backend (Flask + SQLAlchemy):     *)
(* the users and sessions tables, the session resolver get_current_user,   *)
(* and the request handlers of auth_routes.py.  One action is one request  *)
(* handled from start to finish; Tick is the passing of time.              *)
(*                                                                         *)
(* Strings the code normalises are sequences of one-character strings, so  *)
(* that strip() and lower() are computed.  A nullable value is None (the   *)
(* empty tuple) or Some(x) (a one-element tuple).                          *)
(***************************************************************************)
EXTENDS Integers, Sequences, FiniteSets, TLC

\* ---------------------------------------------------------------- bounds
\* The handlers cap nothing; the model stops inserting rows and advancing
\* the clock at these bounds.
MaxSessions == 2
MaxTime == 2
MaxEvents == 1
MaxApiSessions == 1

\* timedelta(days=7), counted in clock ticks of half a validity window.
SessionTTL == 2

\* ------------------------------------------------------- nullable values
None == <<>>
Some(x) == <<x>>
Val(o) == o[1]

\* Query.first(): a row of the result, or None.
first(rows) == IF rows = {} THEN None ELSE Some(CHOOSE r \in rows : TRUE)

\* ---------------------------------------------------------------- strings
UpperChars == <<"A", "B", "C", "D", "E", "F", "G", "H", "I", "J", "K", "L", "M",
                "N", "O", "P", "Q", "R", "S", "T", "U", "V", "W", "X", "Y", "Z">>
LowerChars == <<"a", "b", "c", "d", "e", "f", "g", "h", "i", "j", "k", "l", "m",
                "n", "o", "p", "q", "r", "s", "t", "u", "v", "w", "x", "y", "z">>

LowerChar(c) ==
    IF \E i \in 1..Len(UpperChars) : UpperChars[i] = c
    THEN LowerChars[CHOOSE i \in 1..Len(UpperChars) : UpperChars[i] = c]
    ELSE c

IsSpace(c) == c \in {" ", "\t", "\n"}

RECURSIVE lstrip(_)
lstrip(s) == IF s # <<>> /\ IsSpace(Head(s)) THEN lstrip(Tail(s)) ELSE s

RECURSIVE rstrip(_)
rstrip(s) ==
    IF s # <<>> /\ IsSpace(s[Len(s)]) THEN rstrip(SubSeq(s, 1, Len(s) - 1)) ELSE s

\* str.strip()
strip(s) == rstrip(lstrip(s))

\* lower that leaves the case as it is.
lower_keeps_case(s) == s

\* str.lower()
RECURSIVE lower(_)
lower(s) == IF s = <<>> THEN <<>> ELSE <<LowerChar(Head(s))>> \o lower(Tail(s))

\* ------------------------------------------------------------ JSON values
\* A field of the request body: the key absent, null, a string or a number.
JAbsent == [t |-> "absent", s |-> <<>>]
JNull == [t |-> "null", s |-> <<>>]
JStr(s) == [t |-> "str", s |-> s]
JNum(digits) == [t |-> "num", s |-> digits]

\* Python truthiness of data.get(key).
truthy(v) ==
    CASE v.t = "str" -> v.s # <<>>
      [] v.t = "num" -> v.s # <<"0">>
      [] OTHER -> FALSE

\* (data.get(key) or "")
or_empty(v) == IF truthy(v) THEN v ELSE JStr(<<>>)

\* ------------------------------------------------------ session id strings
\* A cookie string: [fmt, n].  "canonical" is what str(uuid) prints for the
\* id n; "upper" is the same id in upper-case hex, which uuid.UUID() also
\* accepts; "empty" is "" and "garbage" is a string uuid.UUID() rejects.
uuid_str(n) == [fmt |-> "canonical", n |-> n]
EmptyStr == [fmt |-> "empty", n |-> 0]
GarbageStr == [fmt |-> "garbage", n |-> 0]

\* uuid.UUID(s): the id, or ValueError.
UUID(s) ==
    IF s.fmt \in {"canonical", "upper"}
    THEN [ok |-> TRUE, id |-> s.n]
    ELSE [ok |-> FALSE, id |-> 0]

\* ------------------------------------------------------------------ inputs
SessionIdStrings ==
    {EmptyStr, GarbageStr, [fmt |-> "upper", n |-> 1]}
    \cup {uuid_str(n) : n \in 1..(MaxSessions + 1)}

\* request.cookies.get("session_id")
Cookies == {None} \cup {Some(s) : s \in SessionIdStrings}

DevEmail == <<"d", "e", "v", "@", "i", "v", "e", "v", "e", "n", "t", "s",
              ".", "l", "o", "c", "a", "l">>
DevFullName == <<"D", "e", "v", " ", "U", "s", "e", "r">>

\* Request bodies of POST /auth/login.
BlankEmails == {JAbsent, JNull, JStr(<<>>), JStr(<<" ", "\t">>)}

LoginBodies ==
    [email : BlankEmails, full_name : {JAbsent}]
    \cup
    { [email |-> JAbsent, full_name |-> JNum(<<"5">>)],
      [email |-> JNum(<<"5">>), full_name |-> JAbsent],
      [email |-> JStr(<<" ", "A", "@", "B", " ">>), full_name |-> JAbsent],
      [email |-> JStr(<<"a", "@", "b">>), full_name |-> JStr(<<" ">>)] }

\* ------------------------------------------------------------------- state
\* The workers that handle requests at the same time, and a worker between
\* two requests.
Workers == {"w1", "w2"}
Idle == [op |-> "idle"]

VARIABLES
    now,        \* utcnow()
    users,      \* rows of the users table
    sessions,   \* rows of the sessions table
    events,     \* rows of the events table
    participants, \* rows of the event_participants table
    prefs,      \* rows of the user_preferences table
    issued,     \* log of the successful logins: the normalized email, the cookie set
    loggedOut,  \* ids of the sessions whose token a completed logout carried
    last,       \* the last request handled and its response
    reqs        \* per worker, the request it is handling: position and locals

vars ==
    <<now, users, sessions, events, participants, prefs, issued, loggedOut, last, reqs>>

\* The tables the handlers of events_routes.py and preferences_routes.py write.
api_tables == <<events, participants, prefs>>

\* default=uuid.uuid4: an id no row of the table has.  Rows are never
\* deleted, so the count of rows plus one is fresh.
uuid4(rows) == Cardinality(rows) + 1

\* Session.query.filter_by(id=sid).first()
session_by_id(sid) == first({s \in sessions : s.id = sid})

\* User.query.filter_by(id=uid).first()
user_by_id(uid) == first({u \in users : u.id = uid})

\* User.query.filter_by(email=email).first()
user_by_email(email) == first({u \in users : u.email = email})

\* What a call of get_current_user yields: whether it raised, the User row
\* (or None) it returned, and the sessions table as the call leaves it.
Resolved(user) == [raised |-> FALSE, user |-> user, sessions |-> sessions]
Raised == [raised |-> TRUE, user |-> None, sessions |-> sessions]

\* get_current_user without the revoked_at test.
get_current_user_ignores_revocation(session_id) ==
    IF session_id = None \/ Val(session_id) = EmptyStr
    THEN Resolved(None)
    ELSE LET sid == UUID(Val(session_id)) IN
         IF ~sid.ok
         THEN Resolved(None)
         ELSE LET sess == session_by_id(sid.id) IN
              IF sess = None THEN Resolved(None)
              ELSE IF Val(sess).expires_at <= now THEN Resolved(None)
              ELSE Resolved(user_by_id(Val(sess).user_id))

\* get_current_user with expires_at < utcnow() for expires_at <= utcnow().
get_current_user_late_expiry(session_id) ==
    IF session_id = None \/ Val(session_id) = EmptyStr
    THEN Resolved(None)
    ELSE LET sid == UUID(Val(session_id)) IN
         IF ~sid.ok
         THEN Resolved(None)
         ELSE LET sess == session_by_id(sid.id) IN
              IF sess = None THEN Resolved(None)
              ELSE IF Val(sess).revoked_at # None THEN Resolved(None)
              ELSE IF Val(sess).expires_at < now THEN Resolved(None)
              ELSE Resolved(user_by_id(Val(sess).user_id))

\* get_current_user without the try/except around uuid.UUID().
get_current_user_uncaught(session_id) ==
    IF session_id = None \/ Val(session_id) = EmptyStr
    THEN Resolved(None)
    ELSE LET sid == UUID(Val(session_id)) IN
         IF ~sid.ok
         THEN Raised
         ELSE LET sess == session_by_id(sid.id) IN
              IF sess = None THEN Resolved(None)
              ELSE IF Val(sess).revoked_at # None THEN Resolved(None)
              ELSE IF Val(sess).expires_at <= now THEN Resolved(None)
              ELSE Resolved(user_by_id(Val(sess).user_id))

\* get_current_user marking the expired session it meets as revoked.
get_current_user_revokes_expired(session_id) ==
    IF session_id = None \/ Val(session_id) = EmptyStr
    THEN Resolved(None)
    ELSE LET sid == UUID(Val(session_id)) IN
         IF ~sid.ok
         THEN Resolved(None)
         ELSE LET sess == session_by_id(sid.id) IN
              IF sess = None THEN Resolved(None)
              ELSE IF Val(sess).revoked_at # None THEN Resolved(None)
              ELSE IF Val(sess).expires_at <= now
              THEN [raised |-> FALSE, user |-> None,
                    sessions |-> (sessions \ {Val(sess)})
                        \cup {[Val(sess) EXCEPT !.revoked_at = Some(now)]}]
              ELSE Resolved(user_by_id(Val(sess).user_id))

get_current_user(session_id) ==
    IF session_id = None \/ Val(session_id) = EmptyStr
    THEN Resolved(None)
    ELSE LET sid == UUID(Val(session_id)) IN
         IF ~sid.ok
         THEN Resolved(None)
         ELSE LET sess == session_by_id(sid.id) IN
              IF sess = None THEN Resolved(None)
              ELSE IF Val(sess).revoked_at # None THEN Resolved(None)
              ELSE IF Val(sess).expires_at <= now THEN Resolved(None)
              ELSE Resolved(user_by_id(Val(sess).user_id))

\* The request and the response of one handled request.  cookie is the
\* session_id cookie the request carried, email the email field of a login
\* body; user_id is the user the response names, set_cookie the session_id
\* cookie it sets, wrote whether the handler committed a change.
Response(op, cookie, email, status, error, user_id, set_cookie, wrote) ==
    [op |-> op, cookie |-> cookie, email |-> email, status |-> status,
     error |-> error, user_id |-> user_id, set_cookie |-> set_cookie,
     wrote |-> wrote]

Init ==
    /\ now = 0
    /\ users = {}
    /\ sessions = {}
    /\ events = {}
    /\ participants = {}
    /\ prefs = {}
    /\ issued = <<>>
    /\ loggedOut = {}
    /\ last = Response("none", None, JAbsent, 0, "", None, None, FALSE)
    /\ reqs = [w \in Workers |-> Idle]

\* Time passes between requests.
Tick ==
    /\ now < MaxTime
    /\ now' = now + 1
    /\ UNCHANGED <<users, sessions, api_tables, issued, loggedOut, last, reqs>>

\* Session(user_id=..., created_at=utcnow(), expires_at=utcnow() + 7 days)
new_session(user_id) ==
    [id |-> uuid4(sessions), user_id |-> user_id, created_at |-> now,
     expires_at |-> now + SessionTTL, revoked_at |-> None]

\* login_user without the lookup of the existing user.
login_user_always_creates(email, full_name) ==
    [id |-> uuid4(users), email |-> email, full_name |-> full_name,
     last_login_at |-> Some(now)]

\* login_user with the email filter dropped from the lookup.
login_user_any_row(email, full_name) ==
    LET found == first(users) IN
    IF found = None
    THEN [id |-> uuid4(users), email |-> email, full_name |-> full_name,
          last_login_at |-> Some(now)]
    ELSE [Val(found) EXCEPT
            !.full_name = IF full_name # None /\ @ # full_name THEN full_name ELSE @,
            !.last_login_at = Some(now)]

\* The User row login ends with: the row found by email or a new one, the
\* name refreshed and the login time recorded.
login_user(email, full_name) ==
    LET found == user_by_email(email) IN
    IF found = None
    THEN [id |-> uuid4(users), email |-> email, full_name |-> full_name,
          last_login_at |-> Some(now)]
    ELSE [Val(found) EXCEPT
            !.full_name = IF full_name # None /\ @ # full_name THEN full_name ELSE @,
            !.last_login_at = Some(now)]

\* resp.set_cookie("session_id", str(sess.id), ...)
login_cookie(user, sess) == uuid_str(sess.id)

\* POST /auth/login
Login(body) ==
    LET e == or_empty(body.email)
        f == or_empty(body.full_name)
    IN
    IF e.t # "str" \/ f.t # "str"
    THEN \* .strip() of a value that is no string: AttributeError, a 500
         /\ last' = Response("login", None, body.email, 500, "AttributeError",
                             None, None, FALSE)
         /\ UNCHANGED <<now, reqs, users, sessions, api_tables, issued, loggedOut>>
    ELSE LET email == lower(strip(e.s))
             full_name == IF strip(f.s) = <<>> THEN None ELSE Some(strip(f.s))
         IN
         IF email = <<>>
         THEN /\ last' = Response("login", None, body.email, 400, "email_required",
                                  None, None, FALSE)
              /\ UNCHANGED <<now, reqs, users, sessions, api_tables, issued, loggedOut>>
         ELSE LET user == login_user(email, full_name)
                  sess == new_session(user.id)
              IN
              /\ Cardinality(sessions) < MaxSessions
              /\ users' = {u \in users : u.id # user.id} \cup {user}
              /\ sessions' = sessions \cup {sess}
              /\ issued' = Append(issued, [email |-> email,
                                            cookie |-> login_cookie(user, sess)])
              /\ last' = Response("login", None, body.email, 200, "", Some(user.id),
                                  Some(login_cookie(user, sess)), TRUE)
              /\ UNCHANGED <<now, reqs, api_tables, loggedOut>>

\* GET or POST /auth/login-dev
LoginDev ==
    LET found == user_by_email(DevEmail)
        user == IF found = None
                THEN [id |-> uuid4(users), email |-> DevEmail,
                      full_name |-> Some(DevFullName), last_login_at |-> None]
                ELSE Val(found)
        sess == new_session(user.id)
    IN
    /\ Cardinality(sessions) < MaxSessions
    /\ users' = users \cup {user}
    /\ sessions' = sessions \cup {sess}
    /\ issued' = Append(issued, [email |-> DevEmail, cookie |-> uuid_str(sess.id)])
    /\ last' = Response("login_dev", None, JAbsent, 200, "", Some(user.id),
                        Some(uuid_str(sess.id)), TRUE)
    /\ UNCHANGED <<now, reqs, api_tables, loggedOut>>

\* revoke without the write.
revoke_not_committed(sess) == sessions

\* revoke without the test that the row is not yet revoked.
revoke_again(sess) ==
    IF sess # None
    THEN (sessions \ {Val(sess)}) \cup {[Val(sess) EXCEPT !.revoked_at = Some(now)]}
    ELSE sessions

\* revoke that deletes the row.
revoke_deletes(sess) == IF sess # None THEN sessions \ {Val(sess)} ELSE sessions

\* revoke that purges the row when it has expired.
revoke_deletes_expired(sess) ==
    IF sess # None /\ Val(sess).revoked_at = None
    THEN IF Val(sess).expires_at <= now
         THEN sessions \ {Val(sess)}
         ELSE (sessions \ {Val(sess)}) \cup {[Val(sess) EXCEPT !.revoked_at = Some(now)]}
    ELSE sessions

\* revoke that revokes every session of the row's user.
revoke_all_of_user(sess) ==
    IF sess # None /\ Val(sess).revoked_at = None
    THEN {IF S.user_id = Val(sess).user_id /\ S.revoked_at = None
          THEN [S EXCEPT !.revoked_at = Some(now)] ELSE S : S \in sessions}
    ELSE sessions

\* The sessions table after logout's revocation of the row it found.
revoke(sess) ==
    IF sess # None /\ Val(sess).revoked_at = None
    THEN (sessions \ {Val(sess)}) \cup {[Val(sess) EXCEPT !.revoked_at = Some(now)]}
    ELSE sessions

\* logout's lookup that accepts the canonical writing of the id only.
logout_lookup_canonical_only(session_id) ==
    IF session_id = None \/ Val(session_id).fmt # "canonical"
    THEN None
    ELSE session_by_id(Val(session_id).n)

\* The session row logout looks up: none for an absent or empty cookie, and
\* none when uuid.UUID() raises ValueError, which logout swallows.
logout_lookup(session_id) ==
    IF session_id = None \/ Val(session_id) = EmptyStr
    THEN None
    ELSE LET sid == UUID(Val(session_id)) IN
         IF sid.ok THEN session_by_id(sid.id) ELSE None

\* POST /auth/logout
Logout(session_id) ==
    LET sess == logout_lookup(session_id) IN
    /\ sessions' = revoke(sess)
    /\ loggedOut' = IF sess = None THEN loggedOut ELSE loggedOut \cup {Val(sess).id}
    /\ last' = Response("logout", session_id, JAbsent, 200, "", None, None,
                        sessions' # sessions)
    /\ UNCHANGED <<now, reqs, users, api_tables, issued>>

\* GET /auth/me
Me(session_id) ==
    LET r == get_current_user(session_id) IN
    /\ sessions' = r.sessions
    /\ last' = IF r.raised
               THEN Response("me", session_id, JAbsent, 500, "ValueError", None, None,
                             sessions' # sessions)
               ELSE IF r.user = None
               THEN Response("me", session_id, JAbsent, 401, "unauthorized", None, None,
                             sessions' # sessions)
               ELSE Response("me", session_id, JAbsent, 200, "", Some(Val(r.user).id),
                             None, sessions' # sessions)
    /\ UNCHANGED <<now, reqs, users, api_tables, issued, loggedOut>>

\* ------------------------------------------------------- events_routes.py
DigitChars == <<"0", "1", "2", "3", "4", "5", "6", "7", "8", "9">>
IsDigit(c) == \E i \in 1..Len(DigitChars) : DigitChars[i] = c
DigitValue(c) == (CHOOSE i \in 1..Len(DigitChars) : DigitChars[i] = c) - 1

UtcOffset == <<"+", "0", "0", ":", "0", "0">>

\* datetime.fromisoformat(s), or ValueError.  A timestamp is written here
\* as "T" and one digit, the clock tick, with or without the offset +00:00.
fromisoformat(s) ==
    IF /\ Len(s) >= 2 /\ s[1] = "T" /\ IsDigit(s[2])
       /\ (Len(s) = 2 \/ SubSeq(s, 3, Len(s)) = UtcOffset)
    THEN [ok |-> TRUE, t |-> DigitValue(s[2])]
    ELSE [ok |-> FALSE, t |-> 0]

parse_iso_datetime(s) ==
    LET t == strip(s)
        u == IF t # <<>> /\ t[Len(t)] = "Z"
             THEN SubSeq(t, 1, Len(t) - 1) \o UtcOffset
             ELSE t
    IN fromisoformat(u)

\* int(s), or ValueError: the decimal digits of s, blanks around them allowed.
int(s) ==
    LET t == strip(s) IN
    IF t # <<>> /\ \A i \in 1..Len(t) : IsDigit(t[i])
    THEN [ok |-> TRUE] ELSE [ok |-> FALSE]

Going == <<"g", "o", "i", "n", "g">>
Maybe == <<"m", "a", "y", "b", "e">>
No == <<"n", "o">>

\* A handler answers without having written to its own tables.  The sessions
\* table is as the call of get_current_user left it.
Answer(op, session_id, r, status, error) ==
    /\ sessions' = r.sessions
    /\ last' = Response(op, session_id, JAbsent, status, error, None, None,
                        sessions' # sessions)
    /\ UNCHANGED <<now, reqs, users, api_tables, issued, loggedOut>>

\* if not user: return 401 unauthorized (a 500 had the resolver raised).
Unauthorized(op, session_id, r) ==
    IF r.raised
    THEN Answer(op, session_id, r, 500, "ValueError")
    ELSE Answer(op, session_id, r, 401, "unauthorized")

\* POST /events
CreateEvent(session_id, body) ==
    LET r == get_current_user(session_id) IN
    IF r.raised \/ r.user = None
    THEN Unauthorized("create_event", session_id, r)
    ELSE
    LET title == or_empty(body.title)
        description == or_empty(body.description)
        user == Val(r.user)
    IN
    IF title.t # "str" \/ description.t # "str"
    THEN Answer("create_event", session_id, r, 500, "AttributeError")
    ELSE IF strip(title.s) = <<>>
    THEN Answer("create_event", session_id, r, 400, "title_required")
    ELSE IF ~truthy(body.starts_at)
    THEN Answer("create_event", session_id, r, 400, "starts_at_required")
    ELSE IF body.starts_at.t # "str"
    THEN Answer("create_event", session_id, r, 500, "AttributeError")
    ELSE IF ~parse_iso_datetime(body.starts_at.s).ok
    THEN Answer("create_event", session_id, r, 500, "ValueError")
    ELSE IF truthy(body.ends_at) /\ body.ends_at.t # "str"
    THEN Answer("create_event", session_id, r, 500, "AttributeError")
    ELSE IF truthy(body.ends_at) /\ ~parse_iso_datetime(body.ends_at.s).ok
    THEN Answer("create_event", session_id, r, 500, "ValueError")
    ELSE
    LET ev == [id |-> uuid4(events),
               title |-> strip(title.s),
               description |-> IF strip(description.s) = <<>> THEN None
                               ELSE Some(strip(description.s)),
               starts_at |-> parse_iso_datetime(body.starts_at.s).t,
               ends_at |-> IF truthy(body.ends_at)
                           THEN Some(parse_iso_datetime(body.ends_at.s).t)
                           ELSE None,
               created_by_user_id |-> user.id,
               created_at |-> now]
        link == [event_id |-> ev.id, user_id |-> user.id, role |-> "host",
                 rsvp_status |-> Going, created_at |-> now]
    IN
    /\ Cardinality(events) < MaxEvents
    /\ sessions' = r.sessions
    /\ events' = events \cup {ev}
    /\ participants' = participants \cup {link}
    /\ last' = Response("create_event", session_id, JAbsent, 201, "", None, None, TRUE)
    /\ UNCHANGED <<now, reqs, users, prefs, issued, loggedOut>>

\* POST /events/<event_id>/rsvp
Rsvp(session_id, event_id, body) ==
    LET r == get_current_user(session_id) IN
    IF r.raised \/ r.user = None
    THEN Unauthorized("rsvp", session_id, r)
    ELSE
    LET raw == or_empty(body.status)
        user == Val(r.user)
    IN
    IF raw.t # "str"
    THEN Answer("rsvp", session_id, r, 500, "AttributeError")
    ELSE IF lower(strip(raw.s)) \notin {Going, Maybe, No}
    THEN Answer("rsvp", session_id, r, 400, "invalid_status")
    ELSE IF ~UUID(event_id).ok
    THEN \* the database rejects the text as a uuid
         Answer("rsvp", session_id, r, 500, "DataError")
    ELSE
    LET eid == UUID(event_id).id
        link == first({p \in participants : p.event_id = eid /\ p.user_id = user.id})
    IN
    IF link = None /\ \A ev \in events : ev.id # eid
    THEN \* the insert breaks the foreign key to events.id
         Answer("rsvp", session_id, r, 500, "IntegrityError")
    ELSE
    /\ sessions' = r.sessions
    /\ participants' =
            IF link = None
            THEN participants \cup
                    {[event_id |-> eid, user_id |-> user.id, role |-> "attendee",
                      rsvp_status |-> lower(strip(raw.s)), created_at |-> now]}
            ELSE (participants \ {Val(link)})
                    \cup {[Val(link) EXCEPT !.rsvp_status = lower(strip(raw.s))]}
    /\ last' = Response("rsvp", session_id, JAbsent, 200, "", None, None,
                        participants' # participants)
    /\ UNCHANGED <<now, reqs, users, events, prefs, issued, loggedOut>>

\* (request.args.get("mine") or "").lower() == "true"
wants_mine(mine) == mine # None /\ lower(Val(mine)) = <<"t", "r", "u", "e">>

\* GET /events
ListEvents(session_id, limit, mine) ==
    LET r == get_current_user(session_id)
        op == IF wants_mine(mine) THEN "list_events_mine" ELSE "list_events"
    IN
    IF r.raised
    THEN Answer(op, session_id, r, 500, "ValueError")
    ELSE IF limit # None /\ ~int(Val(limit)).ok
    THEN Answer(op, session_id, r, 500, "ValueError")
    ELSE IF wants_mine(mine) /\ r.user = None
    THEN Answer(op, session_id, r, 401, "unauthorized")
    ELSE Answer(op, session_id, r, 200, "")

\* GET /events/mine
MyEvents(session_id) ==
    LET r == get_current_user(session_id) IN
    IF r.raised \/ r.user = None
    THEN Unauthorized("my_events", session_id, r)
    ELSE Answer("my_events", session_id, r, 200, "")

\* -------------------------------------------------- preferences_routes.py
\* UserPreference.query.filter_by(user_id=uid).first()
pref_by_user(uid) == first({p \in prefs : p.user_id = uid})

\* UserPreference(user_id=uid, preferred_tags=[], preferred_days=[],
\*                preferred_time_window=None)
default_pref(uid) ==
    [user_id |-> uid, preferred_tags |-> <<>>, preferred_days |-> <<>>,
     preferred_time_window |-> None, updated_at |-> now]

\* GET /preferences/me
GetMyPreferences(session_id) ==
    LET r == get_current_user(session_id) IN
    IF r.raised \/ r.user = None
    THEN Unauthorized("get_my_preferences", session_id, r)
    ELSE
    LET user == Val(r.user) IN
    /\ sessions' = r.sessions
    /\ prefs' = IF pref_by_user(user.id) = None
                THEN prefs \cup {default_pref(user.id)}
                ELSE prefs
    /\ last' = Response("get_my_preferences", session_id, JAbsent, 200, "", None, None,
                        prefs' # prefs)
    /\ UNCHANGED <<now, reqs, users, events, participants, issued, loggedOut>>

JList(items) == [t |-> "list", s |-> items]

\* isinstance(v, list) and all(isinstance(x, str) for x in v)
list_of_strings(v) == v.t = "list" /\ \A i \in 1..Len(v.s) : v.s[i].t = "str"

\* [x.strip().lower() for x in items if x.strip()]
RECURSIVE normalized_items(_)
normalized_items(items) ==
    IF items = <<>> THEN <<>>
    ELSE IF strip(Head(items).s) = <<>> THEN normalized_items(Tail(items))
    ELSE <<lower(strip(Head(items).s))>> \o normalized_items(Tail(items))

TimeWindows ==
    { <<"m", "o", "r", "n", "i", "n", "g">>,
      <<"a", "f", "t", "e", "r", "n", "o", "o", "n">>,
      <<"e", "v", "e", "n", "i", "n", "g">>,
      <<"n", "i", "g", "h", "t">> }

\* PUT /preferences/me
UpdateMyPreferences(session_id, body) ==
    LET r == get_current_user(session_id) IN
    IF r.raised \/ r.user = None
    THEN Unauthorized("update_my_preferences", session_id, r)
    ELSE
    LET user == Val(r.user)
        found == pref_by_user(user.id)
        pref == IF found = None THEN default_pref(user.id) ELSE Val(found)
        tags == body.preferred_tags
        days == body.preferred_days
        tw == body.preferred_time_window
    IN
    IF tags.t # "absent" /\ ~list_of_strings(tags)
    THEN Answer("update_my_preferences", session_id, r, 400,
                "preferred_tags_must_be_list_of_strings")
    ELSE IF days.t # "absent" /\ ~list_of_strings(days)
    THEN Answer("update_my_preferences", session_id, r, 400,
                "preferred_days_must_be_list_of_strings")
    ELSE IF tw.t = "list"
    THEN \* tw not in allowed: a list is unhashable
         Answer("update_my_preferences", session_id, r, 500, "TypeError")
    ELSE IF tw.t \notin {"absent", "null"} /\ ~(tw.t = "str" /\ tw.s \in TimeWindows)
    THEN Answer("update_my_preferences", session_id, r, 400,
                "invalid_preferred_time_window")
    ELSE
    LET row == [pref EXCEPT
                  !.preferred_tags =
                        IF tags.t = "absent" THEN @ ELSE normalized_items(tags.s),
                  !.preferred_days =
                        IF days.t = "absent" THEN @ ELSE normalized_items(days.s),
                  !.preferred_time_window =
                        IF tw.t = "absent" THEN @
                        ELSE IF tw.t = "null" THEN None ELSE Some(tw.s),
                  !.updated_at = now]
    IN
    /\ sessions' = r.sessions
    /\ prefs' = {p \in prefs : p.user_id # user.id} \cup {row}
    /\ last' = Response("update_my_preferences", session_id, JAbsent, 200, "", None,
                        None, prefs' # prefs)
    /\ UNCHANGED <<now, reqs, users, events, participants, issued, loggedOut>>

\* ------------------------------------------------------------------ app.py
DbCheckEmail ==
    <<"d", "b", "-", "c", "h", "e", "c", "k", "@",
      "i", "v", "e", "v", "e", "n", "t", "s", ".", "l", "o", "c", "a", "l">>
DbCheckFullName ==
    <<"D", "B", " ", "C", "h", "e", "c", "k", " ", "U", "s", "e", "r">>
DbCheckTitle ==
    <<"D", "B", " ", "C", "h", "e", "c", "k", " ", "E", "v", "e", "n", "t">>
DbCheckDescription ==
    <<"C", "r", "e", "a", "t", "e", "d", " ", "b", "y", " ",
      "/", "d", "b", "-", "c", "h", "e", "c", "k">>

\* GET /db-check: a fixed user and a fixed event of theirs, each created
\* unless present.  The event starts and ends within the current clock tick.
DbCheck ==
    LET found == user_by_email(DbCheckEmail)
        user == IF found = None
                THEN [id |-> uuid4(users), email |-> DbCheckEmail,
                      full_name |-> Some(DbCheckFullName), last_login_at |-> None]
                ELSE Val(found)
        existing_event == first({ev \in events : ev.title = DbCheckTitle})
        ev == [id |-> uuid4(events), title |-> DbCheckTitle,
               description |-> Some(DbCheckDescription),
               starts_at |-> now, ends_at |-> Some(now),
               created_by_user_id |-> user.id, created_at |-> now]
    IN
    /\ existing_event = None => Cardinality(events) < MaxEvents
    /\ users' = users \cup {user}
    /\ events' = IF existing_event = None THEN events \cup {ev} ELSE events
    /\ last' = Response("db_check", None, JAbsent, 200, "", Some(user.id), None,
                        users' # users \/ events' # events)
    /\ UNCHANGED <<now, reqs, sessions, participants, prefs, issued, loggedOut>>

\* ----------------------------------------------------------------- auth.py
\* The identity Google vouches for: userinfo.get("email").
GoogleIdentities == { <<"g", "@", "b">> }

\* GET /api/auth/google/callback: the identity is put in the signed Flask
\* session cookie and the browser is redirected.  No table is read or
\* written and no session_id cookie is set.
google_callback(userinfo) ==
    /\ last' = Response("google_callback", None, JStr(userinfo), 302, "", None, None,
                        FALSE)
    /\ UNCHANGED <<now, reqs, users, sessions, api_tables, issued, loggedOut>>

\* ------------------------------------------------ inputs of the handlers
EventBodies ==
    { [title |-> JAbsent, description |-> JAbsent,
       starts_at |-> JAbsent, ends_at |-> JAbsent],
      [title |-> JStr(<<" ", "P", " ">>), description |-> JAbsent,
       starts_at |-> JAbsent, ends_at |-> JAbsent],
      [title |-> JStr(<<"P">>), description |-> JStr(<<"d">>),
       starts_at |-> JStr(<<"s", "o", "o", "n">>), ends_at |-> JAbsent],
      [title |-> JStr(<<" ", "P", " ">>), description |-> JAbsent,
       starts_at |-> JStr(<<" ", "T", "1", "Z">>), ends_at |-> JAbsent],
      [title |-> JStr(<<"P">>), description |-> JNum(<<"5">>),
       starts_at |-> JStr(<<"T", "1">>), ends_at |-> JStr(<<"T", "2", "Z">>)] }

EventIdStrings == {GarbageStr} \cup {uuid_str(n) : n \in 1..(MaxEvents + 1)}

RsvpBodies ==
    { [status |-> JAbsent], [status |-> JNum(<<"5">>)],
      [status |-> JStr(<<" ", "M", "a", "y", "b", "e">>)],
      [status |-> JStr(No)] }

ApiCookies ==
    {None, Some(GarbageStr)} \cup {Some(uuid_str(n)) : n \in 1..MaxApiSessions}

LimitArgs == {None, Some(<<"5">>), Some(<<"a", "l", "l">>)}
MineArgs == {None, Some(<<"T", "r", "u", "e">>)}

PreferenceBodies ==
    { [preferred_tags |-> JAbsent, preferred_days |-> JAbsent,
       preferred_time_window |-> JAbsent],
      [preferred_tags |-> JList(<<JStr(<<" ", "M", " ">>), JStr(<<" ">>)>>),
       preferred_days |-> JAbsent,
       preferred_time_window |-> JStr(<<"n", "o", "o", "n">>)],
      [preferred_tags |-> JStr(<<"m">>), preferred_days |-> JAbsent,
       preferred_time_window |-> JAbsent],
      [preferred_tags |-> JAbsent, preferred_days |-> JList(<<JNum(<<"5">>)>>),
       preferred_time_window |-> JAbsent],
      [preferred_tags |-> JAbsent, preferred_days |-> JList(<<JStr(<<"F", "r", "i">>)>>),
       preferred_time_window |-> JStr(<<"n", "i", "g", "h", "t">>)],
      [preferred_tags |-> JAbsent, preferred_days |-> JAbsent,
       preferred_time_window |-> JList(<<>>)],
      [preferred_tags |-> JAbsent, preferred_days |-> JAbsent,
       preferred_time_window |-> JNull] }

Next ==
    \/ Tick
    \/ \E body \in LoginBodies : Login(body)
    \/ LoginDev
    \/ \E c \in Cookies : Logout(c)
    \/ \E c \in Cookies : Me(c)

Spec == Init /\ [][Next]_vars

\* --------------------------- auth_routes.py, one database access at a time
\* Several workers serve requests at the same time.  Each handler is cut at
\* its database accesses and clock reads; a query sees the rows committed so
\* far, and the worker keeps the rows it has loaded.
RaceBodies ==
    { [email |-> JAbsent, full_name |-> JAbsent],
      [email |-> JStr(<<" ", "A", "@", "B", " ">>), full_name |-> JAbsent] }

RaceCookies == {Some(uuid_str(1))}

\* The logins the workers are in the middle of.
logins_in_flight ==
    Cardinality({w \in Workers : reqs[w].op \in {"login", "login_dev"}})

\* The worker's request moves on.
Goto(w, r) == reqs' = [reqs EXCEPT ![w] = r]

\* The worker's request ends with this response.
Respond(w, response) ==
    /\ last' = response
    /\ reqs' = [reqs EXCEPT ![w] = Idle]

\* login l.94-104: the body is read and the user looked up by email.
login_find(w, body) ==
    LET e == or_empty(body.email)
        f == or_empty(body.full_name)
    IN
    /\ reqs[w] = Idle
    /\ IF e.t # "str" \/ f.t # "str"
       THEN /\ last' = Response("login", None, body.email, 500, "AttributeError",
                                None, None, FALSE)
            /\ UNCHANGED reqs
       ELSE IF lower(strip(e.s)) = <<>>
       THEN /\ last' = Response("login", None, body.email, 400, "email_required",
                                None, None, FALSE)
            /\ UNCHANGED reqs
       ELSE /\ Cardinality(sessions) + logins_in_flight < MaxSessions
            /\ Goto(w, [op |-> "login", pc |-> "found", raw |-> body.email,
                        email |-> lower(strip(e.s)),
                        full_name |-> IF strip(f.s) = <<>> THEN None
                                      ELSE Some(strip(f.s)),
                        user |-> user_by_email(lower(strip(e.s))),
                        created_at |-> 0, expires_at |-> 0])
            /\ UNCHANGED last
    /\ UNCHANGED <<now, users, sessions, api_tables, issued, loggedOut>>

\* INSERT INTO users at commit: the unique index on email refuses a second
\* row with the same email (IntegrityError, a 500).
insert_user(w, r) ==
    LET user == [id |-> uuid4(users), email |-> r.email, full_name |-> r.full_name,
                 last_login_at |-> None]
    IN
    IF user_by_email(r.email) # None
    THEN /\ Respond(w, Response(r.op, None, r.raw, 500, "IntegrityError", None, None,
                                FALSE))
         /\ UNCHANGED users
    ELSE /\ users' = users \cup {user}
         /\ Goto(w, [r EXCEPT !.pc = "user", !.user = Some(user)])
         /\ UNCHANGED last

\* login l.105-113: the user is created, or its name brought up to date.
login_insert_user(w) ==
    LET r == reqs[w] IN
    /\ r.op = "login" /\ r.pc = "found"
    /\ IF r.user = None
       THEN insert_user(w, r)
       ELSE /\ users' =
                  IF r.full_name # None /\ Val(r.user).full_name # r.full_name
                  THEN {IF u.id = Val(r.user).id
                        THEN [u EXCEPT !.full_name = r.full_name] ELSE u : u \in users}
                  ELSE users
            /\ Goto(w, [r EXCEPT !.pc = "user"])
            /\ UNCHANGED last
    /\ UNCHANGED <<now, sessions, api_tables, issued, loggedOut>>

\* login l.116-117: user.last_login_at = utcnow(); commit.
login_stamp(w) ==
    LET r == reqs[w] IN
    /\ r.op = "login" /\ r.pc = "user"
    /\ users' = {IF u.id = Val(r.user).id
                 THEN [u EXCEPT !.last_login_at = Some(now)] ELSE u : u \in users}
    /\ Goto(w, [r EXCEPT !.pc = "stamped"])
    /\ UNCHANGED <<now, sessions, api_tables, issued, loggedOut, last>>

\* login l.122: created_at=utcnow().
login_created_at(w) ==
    LET r == reqs[w] IN
    /\ r.op = "login" /\ r.pc = "stamped"
    /\ Goto(w, [r EXCEPT !.pc = "created_at", !.created_at = now])
    /\ UNCHANGED <<now, users, sessions, api_tables, issued, loggedOut, last>>

\* The session row is inserted and its id handed back in the cookie.
commit_session(w, r, sess) ==
    /\ sessions' = sessions \cup {sess}
    /\ issued' = Append(issued, [email |-> r.email, cookie |-> uuid_str(sess.id)])
    /\ Respond(w, Response(r.op, None, r.raw, 200, "", Some(sess.user_id),
                           Some(uuid_str(sess.id)), TRUE))
    /\ UNCHANGED <<now, users, api_tables, loggedOut>>

\* login l.123-142: expires_at=utcnow() + 7 days; the row is committed.
login_commit(w) ==
    LET r == reqs[w] IN
    /\ r.op = "login" /\ r.pc = "created_at"
    /\ commit_session(w, r, [id |-> uuid4(sessions), user_id |-> Val(r.user).id,
                             created_at |-> r.created_at,
                             expires_at |-> now + SessionTTL, revoked_at |-> None])

\* login_dev l.207-210: the dev user is looked up.
login_dev_find(w) ==
    /\ reqs[w] = Idle
    /\ Cardinality(sessions) + logins_in_flight < MaxSessions
    /\ Goto(w, [op |-> "login_dev", pc |-> "found", raw |-> JAbsent,
                email |-> DevEmail, full_name |-> Some(DevFullName),
                user |-> user_by_email(DevEmail), created_at |-> 0, expires_at |-> 0])
    /\ UNCHANGED <<now, users, sessions, api_tables, issued, loggedOut, last>>

\* login_dev l.211-214: the dev user is created unless found.
login_dev_insert_user(w) ==
    LET r == reqs[w] IN
    /\ r.op = "login_dev" /\ r.pc = "found"
    /\ IF r.user = None
       THEN insert_user(w, r)
       ELSE Goto(w, [r EXCEPT !.pc = "user"]) /\ UNCHANGED <<users, last>>
    /\ UNCHANGED <<now, sessions, api_tables, issued, loggedOut>>

\* login_dev l.217: expires_at = datetime.now(timezone.utc) + 7 days.
login_dev_expires_at(w) ==
    LET r == reqs[w] IN
    /\ r.op = "login_dev" /\ r.pc = "user"
    /\ Goto(w, [r EXCEPT !.pc = "expires_at", !.expires_at = now + SessionTTL])
    /\ UNCHANGED <<now, users, sessions, api_tables, issued, loggedOut, last>>

\* login_dev l.218-235: the row is committed; created_at is the column's
\* default, utcnow() at the insert.
login_dev_commit(w) ==
    LET r == reqs[w] IN
    /\ r.op = "login_dev" /\ r.pc = "expires_at"
    /\ commit_session(w, r, [id |-> uuid4(sessions), user_id |-> Val(r.user).id,
                             created_at |-> now, expires_at |-> r.expires_at,
                             revoked_at |-> None])

\* logout l.154-159: the session row is loaded.
logout_read(w, session_id) ==
    /\ reqs[w] = Idle
    /\ Goto(w, [op |-> "logout", pc |-> "read", cookie |-> session_id,
                sess |-> logout_lookup(session_id)])
    /\ UNCHANGED <<now, users, sessions, api_tables, issued, loggedOut, last>>

\* logout l.160-169: revoked_at of the loaded row is tested; when it is
\* null, UPDATE sessions SET revoked_at = utcnow() WHERE id = sess.id.
logout_commit(w) ==
    LET r == reqs[w]
        write == r.sess # None /\ Val(r.sess).revoked_at = None
    IN
    /\ r.op = "logout" /\ r.pc = "read"
    /\ sessions' = IF write
                   THEN {IF S.id = Val(r.sess).id
                         THEN [S EXCEPT !.revoked_at = Some(now)] ELSE S : S \in sessions}
                   ELSE sessions
    /\ loggedOut' = IF r.sess = None THEN loggedOut ELSE loggedOut \cup {Val(r.sess).id}
    /\ Respond(w, Response("logout", r.cookie, JAbsent, 200, "", None, None, write))
    /\ UNCHANGED <<now, users, api_tables, issued>>

\* get_current_user l.53-67 in /auth/me: the session row is loaded.  The
\* request notes whether a logout with this token had completed by then.
resolve_read(w, session_id) ==
    LET sess == logout_lookup(session_id) IN
    /\ reqs[w] = Idle
    /\ Goto(w, [op |-> "me", pc |-> "read", cookie |-> session_id, sess |-> sess,
                after_logout |-> sess # None /\ Val(sess).id \in loggedOut])
    /\ UNCHANGED <<now, users, sessions, api_tables, issued, loggedOut, last>>

\* The loaded row with the revocation test left out.
session_user_ignores_revocation(sess) ==
    IF sess = None THEN None
    ELSE IF Val(sess).expires_at <= now THEN None
    ELSE user_by_id(Val(sess).user_id)

\* get_current_user l.69-78 on the loaded row.
session_user(sess) ==
    IF sess = None THEN None
    ELSE IF Val(sess).revoked_at # None THEN None
    ELSE IF Val(sess).expires_at <= now THEN None
    ELSE user_by_id(Val(sess).user_id)

\* get_current_user l.69-78 and me l.180-189: the answer.
resolve_finish(w) ==
    LET r == reqs[w]
        user == session_user(r.sess)
    IN
    /\ r.op = "me" /\ r.pc = "read"
    /\ Respond(w, IF user = None
                  THEN Response("me", r.cookie, JAbsent, 401, "unauthorized", None,
                                None, FALSE)
                  ELSE Response("me", r.cookie, JAbsent, 200, "", Some(Val(user).id),
                                None, FALSE))
    /\ UNCHANGED <<now, users, sessions, api_tables, issued, loggedOut>>

\* The handlers that read or write the users and sessions tables, without
\* /auth/me, and the OAuth callback.
NextStore ==
    \/ Tick
    \/ \E body \in LoginBodies : Login(body)
    \/ LoginDev
    \/ \E c \in ApiCookies : Logout(c)
    \/ DbCheck
    \/ \E userinfo \in GoogleIdentities : google_callback(userinfo)

SpecStore == Init /\ [][NextStore]_vars

\* The session handlers of several workers, one database access at a time.
NextRace ==
    \/ Tick
    \/ \E w \in Workers, body \in RaceBodies : login_find(w, body)
    \/ \E w \in Workers : login_insert_user(w)
    \/ \E w \in Workers : login_stamp(w)
    \/ \E w \in Workers : login_created_at(w)
    \/ \E w \in Workers : login_commit(w)
    \/ \E w \in Workers : login_dev_find(w)
    \/ \E w \in Workers : login_dev_insert_user(w)
    \/ \E w \in Workers : login_dev_expires_at(w)
    \/ \E w \in Workers : login_dev_commit(w)
    \/ \E w \in Workers, c \in RaceCookies : logout_read(w, c)
    \/ \E w \in Workers : logout_commit(w)
    \/ \E w \in Workers, c \in RaceCookies : resolve_read(w, c)
    \/ \E w \in Workers : resolve_finish(w)

SpecRace == Init /\ [][NextRace]_vars

\* Logins one at a time; logout and /auth/me of several workers, one
\* database access at a time.
NextResolve ==
    \/ Tick
    \/ LoginDev /\ Cardinality(sessions) < MaxApiSessions
    \/ \E w \in Workers, c \in ApiCookies : logout_read(w, c)
    \/ \E w \in Workers : logout_commit(w)
    \/ \E w \in Workers, c \in ApiCookies : resolve_read(w, c)
    \/ \E w \in Workers : resolve_finish(w)

SpecResolve == Init /\ [][NextResolve]_vars

\* The session handlers together with the handlers that ask the resolver
\* who the caller is.
NextApi ==
    \/ Tick
    \/ DbCheck
    \/ LoginDev /\ Cardinality(sessions) < MaxApiSessions
    \/ \E c \in ApiCookies : Logout(c)
    \/ \E c \in ApiCookies : Me(c)
    \/ \E c \in ApiCookies, body \in EventBodies : CreateEvent(c, body)
    \/ \E c \in ApiCookies, e \in EventIdStrings, body \in RsvpBodies : Rsvp(c, e, body)
    \/ \E c \in ApiCookies, limit \in LimitArgs, mine \in MineArgs :
            ListEvents(c, limit, mine)
    \/ \E c \in ApiCookies : MyEvents(c)
    \/ \E c \in ApiCookies : GetMyPreferences(c)
    \/ \E c \in ApiCookies, body \in PreferenceBodies : UpdateMyPreferences(c, body)

SpecApi == Init /\ [][NextApi]_vars

\* ------------------------- events_routes.py, one database access at a time
\* create_event l.38-50 on the request body: the answer that ends the
\* request early, or the column values of the new row.
event_request(body) ==
    LET title == or_empty(body.title)
        description == or_empty(body.description)
        Fail(status, error) == [ok |-> FALSE, status |-> status, error |-> error]
    IN
    IF title.t # "str" \/ description.t # "str"
    THEN Fail(500, "AttributeError")
    ELSE IF strip(title.s) = <<>>
    THEN Fail(400, "title_required")
    ELSE IF ~truthy(body.starts_at)
    THEN Fail(400, "starts_at_required")
    ELSE IF body.starts_at.t # "str"
    THEN Fail(500, "AttributeError")
    ELSE IF ~parse_iso_datetime(body.starts_at.s).ok
    THEN Fail(500, "ValueError")
    ELSE IF truthy(body.ends_at) /\ body.ends_at.t # "str"
    THEN Fail(500, "AttributeError")
    ELSE IF truthy(body.ends_at) /\ ~parse_iso_datetime(body.ends_at.s).ok
    THEN Fail(500, "ValueError")
    ELSE [ok |-> TRUE,
          title |-> strip(title.s),
          description |-> IF strip(description.s) = <<>> THEN None
                          ELSE Some(strip(description.s)),
          starts_at |-> parse_iso_datetime(body.starts_at.s).t,
          ends_at |-> IF truthy(body.ends_at)
                      THEN Some(parse_iso_datetime(body.ends_at.s).t)
                      ELSE None]

\* The answer of a handler of this module that has written nothing.
Refused(op, session_id, status, error) ==
    Response(op, session_id, JAbsent, status, error, None, None, FALSE)

\* create_event l.33-61: the caller is resolved, the body validated, and the
\* Event row inserted and committed.  The host link is not yet written.
create_event_insert(w, session_id, body) ==
    LET r == get_current_user(session_id)
        q == event_request(body)
        ev == [id |-> uuid4(events), title |-> q.title,
               description |-> q.description, starts_at |-> q.starts_at,
               ends_at |-> q.ends_at,
               created_by_user_id |-> Val(r.user).id, created_at |-> now]
    IN
    /\ reqs[w] = Idle
    /\ sessions' = r.sessions
    /\ IF r.raised
       THEN /\ Respond(w, Refused("create_event", session_id, 500, "ValueError"))
            /\ UNCHANGED events
       ELSE IF r.user = None
       THEN /\ Respond(w, Refused("create_event", session_id, 401, "unauthorized"))
            /\ UNCHANGED events
       ELSE IF ~q.ok
       THEN /\ Respond(w, Refused("create_event", session_id, q.status, q.error))
            /\ UNCHANGED events
       ELSE /\ Cardinality(events) < MaxEvents
            /\ events' = events \cup {ev}
            /\ Goto(w, [op |-> "create_event", pc |-> "event", cookie |-> session_id,
                        event_id |-> ev.id, user_id |-> Val(r.user).id])
            /\ UNCHANGED last
    /\ UNCHANGED <<now, users, participants, prefs, issued, loggedOut>>

\* create_event l.64-68: the host link is inserted and committed.  The
\* primary key (event_id, user_id) refuses a second row of the pair; the
\* Event row of the first commit stays.
create_event_host(w) ==
    LET r == reqs[w]
        link == [event_id |-> r.event_id, user_id |-> r.user_id, role |-> "host",
                 rsvp_status |-> Going, created_at |-> now]
        taken == \E p \in participants :
                    p.event_id = r.event_id /\ p.user_id = r.user_id
    IN
    /\ r.op = "create_event" /\ r.pc = "event"
    /\ participants' = IF taken THEN participants ELSE participants \cup {link}
    /\ Respond(w, IF taken
                  THEN Refused("create_event", r.cookie, 500, "IntegrityError")
                  ELSE Response("create_event", r.cookie, JAbsent, 201, "", None,
                                None, TRUE))
    /\ UNCHANGED <<now, users, sessions, events, prefs, issued, loggedOut>>

\* rsvp l.77-86: the caller is resolved, the status validated, and the link
\* of the pair (event, user) loaded.
rsvp_find(w, session_id, event_id, body) ==
    LET r == get_current_user(session_id)
        raw == or_empty(body.status)
        eid == UUID(event_id).id
    IN
    /\ reqs[w] = Idle
    /\ sessions' = r.sessions
    /\ IF r.raised
       THEN Respond(w, Refused("rsvp", session_id, 500, "ValueError"))
       ELSE IF r.user = None
       THEN Respond(w, Refused("rsvp", session_id, 401, "unauthorized"))
       ELSE IF raw.t # "str"
       THEN Respond(w, Refused("rsvp", session_id, 500, "AttributeError"))
       ELSE IF lower(strip(raw.s)) \notin {Going, Maybe, No}
       THEN Respond(w, Refused("rsvp", session_id, 400, "invalid_status"))
       ELSE IF ~UUID(event_id).ok
       THEN \* the database rejects the text as a uuid
            Respond(w, Refused("rsvp", session_id, 500, "DataError"))
       ELSE /\ Goto(w, [op |-> "rsvp", pc |-> "link", cookie |-> session_id,
                        event_id |-> eid, user_id |-> Val(r.user).id,
                        status |-> lower(strip(raw.s)),
                        link |-> first({p \in participants :
                                            /\ p.event_id = eid
                                            /\ p.user_id = Val(r.user).id})])
            /\ UNCHANGED last
    /\ UNCHANGED <<now, users, events, participants, prefs, issued, loggedOut>>

\* rsvp l.87-94: with no link loaded a row with role attendee is inserted,
\* which the primary key (event_id, user_id) and the foreign key to
\* events.id may refuse; a loaded link has its rsvp_status updated, if it
\* differs from the loaded one.  Then the commit and the answer.
rsvp_commit(w) ==
    LET r == reqs[w]
        taken == \E p \in participants :
                    p.event_id = r.event_id /\ p.user_id = r.user_id
        known == \E ev \in events : ev.id = r.event_id
        refused == r.link = None /\ (taken \/ ~known)
    IN
    /\ r.op = "rsvp" /\ r.pc = "link"
    /\ participants' =
            IF refused THEN participants
            ELSE IF r.link = None
            THEN participants \cup
                    {[event_id |-> r.event_id, user_id |-> r.user_id,
                      role |-> "attendee", rsvp_status |-> r.status,
                      created_at |-> now]}
            ELSE IF Val(r.link).rsvp_status = r.status
            THEN participants
            ELSE {IF p.event_id = r.event_id /\ p.user_id = r.user_id
                  THEN [p EXCEPT !.rsvp_status = r.status] ELSE p : p \in participants}
    /\ Respond(w, IF refused
                  THEN Refused("rsvp", r.cookie, 500, "IntegrityError")
                  ELSE Response("rsvp", r.cookie, JAbsent, 200, "", None, None,
                                participants' # participants))
    /\ UNCHANGED <<now, users, sessions, events, prefs, issued, loggedOut>>

\* create_event and rsvp of several workers, one commit at a time, with the
\* dev login and the database check that provide the user and an event
\* nobody is linked to.
NextEvents ==
    \/ Tick
    \/ DbCheck
    \/ LoginDev /\ Cardinality(sessions) < MaxApiSessions
    \/ \E w \in Workers, c \in ApiCookies, body \in EventBodies :
            create_event_insert(w, c, body)
    \/ \E w \in Workers : create_event_host(w)
    \/ \E w \in Workers, c \in ApiCookies, e \in EventIdStrings, body \in RsvpBodies :
            rsvp_find(w, c, e, body)
    \/ \E w \in Workers : rsvp_commit(w)

SpecEvents == Init /\ [][NextEvents]_vars

\* ------------------------------------------------------------------ claims
\* The cookie c carries the id of the session row S, in any text form.
Names(c, S) ==
    c # None /\ Val(c).fmt \in {"canonical", "upper"} /\ Val(c).n = S.id

\* The session row is valid at the current time.
Active(S) == S.revoked_at = None /\ S.expires_at > now

\* C1: for every stored session S, at every clock value, get_current_user
\* with S's id as the cookie returns S's owning User if and only if
\* S.revoked_at is null and S.expires_at > now, and None otherwise.
C1_ResolveIffActive ==
    \A S \in sessions : \A c \in Cookies :
        Names(c, S) =>
            LET r == get_current_user(c) IN
            /\ ~r.raised
            /\ IF Active(S)
               THEN /\ r.user # None
                    /\ Val(r.user) \in users
                    /\ Val(r.user).id = S.user_id
               ELSE r.user = None

\* /auth/me has answered 200 for a valid session of one user while a
\* revoked session of another user is stored.
C1_Witness ==
    /\ last.op = "me" /\ last.status = 200
    /\ \E S1, S2 \in sessions :
        /\ Names(last.cookie, S1) /\ Active(S1)
        /\ last.user_id = Some(S1.user_id)
        /\ S2.revoked_at # None /\ S2.user_id # S1.user_id

\* C2: once a logout carrying the token of session S has completed, every
\* get_current_user with that token returns None, whatever logins, logouts
\* and clock advances follow.
C2_RevocationMonotonic ==
    \A S \in sessions : \A c \in Cookies :
        (S.id \in loggedOut /\ Names(c, S)) => get_current_user(c).user = None

\* A session was logged out, the clock advanced, a later login created
\* another session, and /auth/me with the old token answers 401 although
\* the session has not expired.
C2_Witness ==
    /\ last.op = "me" /\ last.status = 401
    /\ \E S1, S2 \in sessions :
        /\ Names(last.cookie, S1) /\ S1.id \in loggedOut
        /\ S1.expires_at > now
        /\ S1.revoked_at # None /\ Val(S1.revoked_at) < S2.created_at

\* C3: a non-revoked session resolves to its user at every time strictly
\* before expires_at and to None from expires_at on, and the passing of time
\* writes nothing to the store.
C3_ExpiryByTime ==
    [][ now' # now =>
          /\ users' = users /\ sessions' = sessions
          /\ \A S \in sessions : \A c \in Cookies :
                (Names(c, S) /\ S.revoked_at = None) =>
                    /\ (get_current_user(c).user # None) = (now < S.expires_at)
                    /\ (get_current_user(c).user # None)' = (now' < S.expires_at)
      ]_vars

\* The clock is exactly at expires_at of a never-revoked session and
\* /auth/me with its token has answered 401.
C3_Witness ==
    /\ last.op = "me" /\ last.status = 401
    /\ \E S \in sessions :
        Names(last.cookie, S) /\ S.revoked_at = None /\ S.expires_at = now

\* The credential names no stored session: absent, empty, not a UUID, or
\* a UUID no row has.
NoSuchSession(c) ==
    \/ c = None
    \/ Val(c) = EmptyStr
    \/ Val(c).fmt \notin {"canonical", "upper"}
    \/ \A S \in sessions : S.id # Val(c).n

\* C4: get_current_user never raises on its credential, and an absent, an
\* empty, a malformed and an unknown credential all yield None: /auth/me
\* answers each with 401 unauthorized.
C4_NeverRaises ==
    /\ \A c \in Cookies :
        /\ ~get_current_user(c).raised
        /\ NoSuchSession(c) => get_current_user(c).user = None
    /\ (last.op = "me" /\ NoSuchSession(last.cookie)) =>
            (last.status = 401 /\ last.error = "unauthorized")

\* /auth/me has answered 401 to a cookie that is not a UUID while a valid
\* session is stored.
C4_Witness ==
    /\ last.op = "me" /\ last.cookie = Some(GarbageStr) /\ last.status = 401
    /\ \E S \in sessions : Active(S)

\* The normalized emails of the successful logins so far.
LoggedInEmails == {issued[i].email : i \in 1..Len(issued)}

\* C5: after n successful logins (POST /auth/login, or /auth/login-dev with
\* its fixed email) whose emails normalize to the same value, there is
\* exactly one User row with that email and n Session rows with distinct
\* ids owned by it, each resolving to that user while it is active.
C5_LoginIdempotentOnIdentity ==
    \A e \in LoggedInEmails :
        LET n == Cardinality({i \in 1..Len(issued) : issued[i].email = e})
            owners == {u \in users : u.email = e}
        IN
        /\ Cardinality(owners) = 1
        /\ \A u \in owners :
            LET owned == {S \in sessions : S.user_id = u.id} IN
            /\ Cardinality(owned) = n
            /\ Cardinality({S.id : S \in owned}) = n
            /\ \A S \in owned :
                Active(S) => get_current_user(Some(uuid_str(S.id))).user = Some(u)

\* Two logins with the same normalized email have succeeded, the second
\* with a differently written email, and another user exists.
C5_Witness ==
    /\ Len(issued) = 2 /\ issued[1].email = issued[2].email
    /\ last.op = "login" /\ last.status = 200
    /\ last.email.s # issued[2].email
    /\ Cardinality(sessions) = 2

\* C6 as stated: logout always answers success, and only a valid
\* credential (one that resolves to a user) changes stored state.
C6_OnlyValidChangesState ==
    [][ \A c \in Cookies :
          Logout(c) =>
            /\ last'.status = 200
            /\ (users' # users \/ sessions' # sessions) =>
                    get_current_user(c).user # None
      ]_vars

\* C6, amended: logout always answers success; it changes stored state
\* exactly when the credential names a stored session whose revoked_at is
\* null, valid or expired, and then it sets that row's revoked_at to now and
\* changes nothing else.
C6_LogoutIdempotent ==
    [][ \A c \in Cookies :
          Logout(c) =>
            /\ last'.status = 200 /\ last'.error = ""
            /\ users' = users
            /\ LET hit == {S \in sessions : Names(c, S) /\ S.revoked_at = None} IN
               sessions' = (sessions \ hit)
                    \cup {[S EXCEPT !.revoked_at = Some(now)] : S \in hit}
            /\ ((NoSuchSession(c) \/ \E S \in sessions :
                    Names(c, S) /\ S.revoked_at # None) => sessions' = sessions)
      ]_vars

\* A logout with an already-revoked credential has answered 200, at a later
\* time than the revocation, and has written nothing.
C6_Witness ==
    /\ last.op = "logout" /\ last.status = 200 /\ ~last.wrote
    /\ \E S \in sessions :
        /\ Names(last.cookie, S)
        /\ S.revoked_at # None /\ Val(S.revoked_at) < now

\* C7: get_current_user performs no mutation: a /auth/me request, which
\* does nothing but call it, leaves the user and session rows as they
\* were; for an expired session it answers 401 and the row stays, its
\* revoked_at still null.
C7_ResolverReadsOnly ==
    [][ \A c \in Cookies :
          Me(c) =>
            /\ users' = users /\ sessions' = sessions
            /\ \A S \in sessions :
                (Names(c, S) /\ S.revoked_at = None /\ S.expires_at <= now) =>
                    /\ last'.status = 401
                    /\ S \in sessions'
      ]_vars

\* /auth/me has answered 401 to the token of an expired session whose
\* revoked_at is null.
C7_Witness ==
    /\ last.op = "me" /\ last.status = 401 /\ ~last.wrote
    /\ \E S \in sessions :
        Names(last.cookie, S) /\ S.revoked_at = None /\ S.expires_at <= now

\* C8: the cookie a successful login(e) sets names a session that, while
\* it is not expired and no logout with it has completed, resolves to the
\* User whose stored email is lower(strip(e)); after a logout with it, it
\* resolves to None.
C8_LoginResolveRoundTrip ==
    /\ \A i \in 1..Len(issued) :
        LET c == Some(issued[i].cookie) IN
        \E S \in sessions :
            /\ Names(c, S)
            /\ (S.id \notin loggedOut /\ now < S.expires_at) =>
                    /\ get_current_user(c).user # None
                    /\ Val(get_current_user(c).user).email = issued[i].email
            /\ S.id \in loggedOut => get_current_user(c).user = None
    /\ (last.op = "login" /\ last.status = 200) =>
            /\ last.set_cookie = Some(issued[Len(issued)].cookie)
            /\ issued[Len(issued)].email = lower(strip(last.email.s))
            /\ \E u \in users :
                u.id = Val(last.user_id) /\ u.email = lower(strip(last.email.s))

\* A login with a padded upper-case email succeeded, a logout with the
\* cookie it set completed, and /auth/me with that cookie answers 401
\* before the session's expiry.
C8_Witness ==
    /\ last.op = "me" /\ last.status = 401
    /\ \E i \in 1..Len(issued) : \E S \in sessions :
        /\ last.cookie = Some(issued[i].cookie)
        /\ Names(last.cookie, S)
        /\ S.id \in loggedOut /\ now < S.expires_at
        /\ issued[i].email = <<"a", "@", "b">>

\* The credential names no session row that is valid at the current time.
AnonymousCaller(c) == \A S \in sessions : ~(Names(c, S) /\ Active(S))

\* A request to one of the endpoints that require authentication.
AuthRequiredRequest(c) ==
    \/ Me(c)
    \/ \E body \in EventBodies : CreateEvent(c, body)
    \/ \E e \in EventIdStrings, body \in RsvpBodies : Rsvp(c, e, body)
    \/ \E limit \in LimitArgs, mine \in MineArgs :
            wants_mine(mine) /\ ListEvents(c, limit, mine)
    \/ MyEvents(c)
    \/ GetMyPreferences(c)
    \/ \E body \in PreferenceBodies : UpdateMyPreferences(c, body)

\* C9: in every endpoint that requires authentication, a request whose
\* credential resolves to Anonymous is answered 401 unauthorized, with no
\* other error outcome and no write, whatever the rest of the request holds.
C9_AuthBeforeValidation ==
    [][\A c \in ApiCookies :
          (AnonymousCaller(c) /\ AuthRequiredRequest(c)) =>
              /\ last'.status = 401 /\ last'.error = "unauthorized"
              /\ UNCHANGED <<users, sessions, events, participants, prefs>>]_vars

\* C10: a login whose email field is missing, null, empty or whitespace
\* is answered 400 email_required, writes nothing and sets no cookie.
C10_BlankEmailRejected ==
    (last.op = "login" /\ last.email \in BlankEmails) =>
        /\ last.status = 400 /\ last.error = "email_required"
        /\ ~last.wrote /\ last.set_cookie = None

\* The text has no upper-case letter and no blank at either end.
IsNormalized(s) ==
    /\ \A i \in 1..Len(s) : \A j \in 1..Len(UpperChars) : s[i] # UpperChars[j]
    /\ s # <<>> => (~IsSpace(s[1]) /\ ~IsSpace(s[Len(s)]))

\* C11: every stored User email is trimmed and lower-case, and no two User
\* rows have the same email, whatever login, login-dev and db-check requests
\* produced the state.
C11_EmailNormalizedUnique ==
    /\ \A u \in users : IsNormalized(u.email)
    /\ \A u1, u2 \in users : u1.email = u2.email => u1 = u2

\* The db-check user exists, and a login with a padded upper-case email
\* has succeeded after a login with the same email in lower case.
C11_Witness ==
    /\ \E u \in users : u.email = DbCheckEmail
    /\ Len(issued) = 2 /\ issued[1].email = issued[2].email
    /\ last.op = "login" /\ last.status = 200
    /\ ~IsNormalized(last.email.s)

\* C12: a user may own several valid sessions at once, and a logout with
\* the token of session S1 changes only S1's row: every other session S2
\* stays as stored and resolves exactly as it did before the logout.
C12_SessionsIndependent ==
    [][ (last'.op = "logout" /\ Logout(last'.cookie)) =>
            \A S2 \in sessions :
                ~Names(last'.cookie, S2) =>
                    /\ S2 \in sessions'
                    /\ get_current_user(Some(uuid_str(S2.id))).user
                          = (get_current_user(Some(uuid_str(S2.id))).user)'
      ]_vars

\* A logout has revoked one of two sessions of the same user at the
\* current time, and the other session is still valid.
C12_Witness ==
    /\ last.op = "logout" /\ last.wrote
    /\ \E S1, S2 \in sessions :
        /\ Names(last.cookie, S1) /\ S1.revoked_at = Some(now)
        /\ S2.id # S1.id /\ S2.user_id = S1.user_id /\ Active(S2)
        /\ get_current_user(Some(uuid_str(S2.id))).user # None

\* C13 as stated: once the clock has reached a session's expires_at, no
\* operation changes its stored row; a logout with the token of an expired,
\* never-revoked session leaves its revoked_at null.
C13_ExpiredRowFrozen ==
    [][ \A S \in sessions : S.expires_at <= now => S \in sessions' ]_vars

\* C13, amended: once the clock has reached a session's expires_at, the
\* session never resolves to a user again and its id, user_id, created_at and
\* expires_at never change; its revoked_at changes only from null to the
\* current time, and only by a logout carrying its token.
C13_ExpiredOnlyRevocable ==
    [][ \A S \in sessions :
          S.expires_at <= now =>
            /\ get_current_user(Some(uuid_str(S.id))).user = None
            /\ (get_current_user(Some(uuid_str(S.id))).user = None)'
            /\ \/ S \in sessions'
               \/ /\ S.revoked_at = None
                  /\ [S EXCEPT !.revoked_at = Some(now)] \in sessions'
                  /\ last'.op = "logout" /\ Names(last'.cookie, S)
                  /\ Logout(last'.cookie)
      ]_vars

\* A logout with the token of an expired, never-revoked session has
\* written: the row's revoked_at is not earlier than its expires_at.
C13_Witness ==
    /\ last.op = "logout" /\ last.wrote
    /\ \E S \in sessions :
        /\ Names(last.cookie, S)
        /\ S.revoked_at # None /\ Val(S.revoked_at) >= S.expires_at

\* The newest session of a user.
newest_session(u) ==
    CHOOSE S \in sessions :
        /\ S.user_id = u.id
        /\ \A T \in sessions : T.user_id = u.id => T.created_at <= S.created_at

\* C19: every login path sets the user's last_login_at before it creates the
\* session: each User that owns a Session has a last_login_at, not later
\* than the created_at of its newest session.
C19_LastLoginRecorded ==
    \A u \in users :
        (\E S \in sessions : S.user_id = u.id) =>
            /\ u.last_login_at # None
            /\ Val(u.last_login_at) <= newest_session(u).created_at

\* The step is a login that succeeded: by email, by the dev route or by
\* the OAuth callback.
SuccessfulLogin ==
    \/ \E body \in LoginBodies : Login(body) /\ last'.status = 200
    \/ LoginDev
    \/ \E userinfo \in GoogleIdentities : google_callback(userinfo)

\* C18: every successful login, by login, login-dev or google_callback,
\* inserts exactly one new Session row, and no other operation inserts one.
C18_SessionPerLogin ==
    [][ LET added == {S.id : S \in sessions'} \ {S.id : S \in sessions} IN
        IF SuccessfulLogin THEN Cardinality(added) = 1 ELSE added = {} ]_vars

\* C20: no operation deletes a Session row or a User row: across every
\* request and clock advance the stored session ids and user ids only grow,
\* and expired or revoked sessions stay in the store.
C20_RowsNeverDeleted ==
    [][ /\ {S.id : S \in sessions} \subseteq {S.id : S \in sessions'}
        /\ {u.id : u \in users} \subseteq {u.id : u \in users'}
        /\ \A S \in sessions :
              (S.revoked_at # None \/ S.expires_at <= now) =>
                  \E T \in sessions' : T.id = S.id /\ T.user_id = S.user_id
      ]_vars

\* A revoked session and an expired, never-revoked session are both
\* stored after a logout, beside a user who owns no session.
C20_Witness ==
    /\ last.op = "logout"
    /\ \E S1, S2 \in sessions :
        /\ S1.revoked_at # None /\ Val(S1.revoked_at) < now
        /\ S2.revoked_at = None /\ S2.expires_at <= now
    /\ \E u \in users : \A S \in sessions : S.user_id # u.id

\* C16: when a get_current_user call and a logout for the same session
\* interleave, the resolve returns the identity only if it loaded the session
\* row before the logout's commit; every resolve that loads the row after a
\* completed logout with that token returns Anonymous.
C16_ResolveRevokeRace ==
    [][ \A w \in Workers :
          resolve_finish(w) =>
            /\ last'.status = 200 =>
                    /\ ~reqs[w].after_logout
                    /\ reqs[w].sess # None /\ Val(reqs[w].sess).revoked_at = None
            /\ reqs[w].after_logout =>
                    (last'.status = 401 /\ last'.error = "unauthorized")
      ]_vars

\* The race: a worker has loaded the row of a valid session, a logout with
\* the same token has committed since, and the resolve has yet to answer.
C16_Witness ==
    \E w \in Workers : \E S \in sessions :
        /\ reqs[w].op = "me" /\ reqs[w].sess # None
        /\ Val(reqs[w].sess).id = S.id
        /\ Val(reqs[w].sess).revoked_at = None /\ ~reqs[w].after_logout
        /\ S.revoked_at # None /\ S.id \in loggedOut
        /\ now < S.expires_at
        /\ session_user(reqs[w].sess) # None

\* C14: the stored revoked_at of a session is written at most once: once
\* non-null it is never reset to null and never changes, in every
\* interleaving of logout requests carrying the same token.
C14_RevokedAtWrittenOnce ==
    [][ \A S \in sessions :
          S.revoked_at # None =>
              \E T \in sessions' : T.id = S.id /\ T.revoked_at = S.revoked_at ]_vars

\* C15: every session row created by login or login-dev has, at creation,
\* revoked_at null and expires_at = created_at + the validity window, even
\* when the clock advances between the steps of the handler.
C15_ExpiryFromCreation ==
    [][ \A S \in sessions' :
          (\A T \in sessions : T.id # S.id) =>
              /\ S.revoked_at = None
              /\ S.expires_at = S.created_at + SessionTTL ]_vars

\* C17: two logins for the same new email, interleaved between their
\* find-user step and their insert-user commit, both succeed: no login with
\* an email ends in an error, and there is one User row for the email.
C17_ConcurrentFirstLogins ==
    /\ (last.op = "login" /\ last.email.t = "str" /\ strip(last.email.s) # <<>>) =>
            (last.status = 200 /\ last.error = "")
    /\ \A u1, u2 \in users : u1.email = u2.email => u1 = u2

\* C21: the resolver and logout map credential strings to sessions alike:
\* if get_current_user with cookie c returns a user through session S, a
\* logout with the same c revokes exactly S, and get_current_user with c
\* returns None afterwards.
C21_AuthenticatesImpliesRevocable ==
    [][ \A c \in Cookies :
          (/\ last'.op = "logout" /\ last'.cookie = c /\ Logout(c)
           /\ get_current_user(c).user # None) =>
              \E S \in sessions :
                  /\ Names(c, S) /\ Active(S)
                  /\ Val(get_current_user(c).user).id = S.user_id
                  /\ sessions' = (sessions \ {S})
                          \cup {[S EXCEPT !.revoked_at = Some(now)]}
                  /\ (get_current_user(c).user = None)'
      ]_vars

\* A logout with the upper-case writing of a valid session's id has revoked
\* that session while another session is stored.
C21_Witness ==
    /\ last.op = "logout" /\ last.wrote
    /\ last.cookie # None /\ Val(last.cookie).fmt = "upper"
    /\ \E S \in sessions :
        Names(last.cookie, S) /\ S.revoked_at = Some(now) /\ now < S.expires_at
    /\ Cardinality(sessions) = 2

\* A field the body provides is not acceptable: tags or days that are not
\* a list of strings, or a time window that is neither null nor one of the
\* allowed names.
FailsValidation(body) ==
    \/ body.preferred_tags.t # "absent" /\ ~list_of_strings(body.preferred_tags)
    \/ body.preferred_days.t # "absent" /\ ~list_of_strings(body.preferred_days)
    \/ /\ body.preferred_time_window.t \notin {"absent", "null"}
       /\ ~(/\ body.preferred_time_window.t = "str"
            /\ body.preferred_time_window.s \in TimeWindows)

\* The stored preferences of the caller differ from the row before the
\* request only in the fields the body provides (and in updated_at).
OnlyProvidedChanged(old, new, body) ==
    /\ new.user_id = old.user_id
    /\ body.preferred_tags.t = "absent" => new.preferred_tags = old.preferred_tags
    /\ body.preferred_days.t = "absent" => new.preferred_days = old.preferred_days
    /\ body.preferred_time_window.t = "absent" =>
            new.preferred_time_window = old.preferred_time_window

\* C24: update_my_preferences is all-or-nothing: a request of a logged-in
\* user in which a provided field fails validation is answered 400 and
\* leaves the stored preferences unchanged, and a successful request changes
\* only the fields present in its body.
C24_PreferencesAllOrNothing ==
    [][ \A c \in ApiCookies : \A body \in PreferenceBodies :
          (~AnonymousCaller(c) /\ UpdateMyPreferences(c, body)) =>
              IF FailsValidation(body)
              THEN last'.status = 400 /\ prefs' = prefs
              ELSE /\ last'.status = 200
                   /\ \A new \in prefs' :
                        \/ new \in prefs
                        \/ \E old \in prefs \cup {default_pref(new.user_id)} :
                              OnlyProvidedChanged(old, new, body)
      ]_vars

\* The event row was written by create_event: its creator is a user who
\* logged in, not the user of the database check.
CreatedByCreateEvent(ev) ==
    \E u \in users : u.id = ev.created_by_user_id /\ u.email # DbCheckEmail

\* C22: the creator of an event is its host in every state another request
\* can observe: each Event row created by create_event has a participant
\* row of its creator with role host, between the two commits of
\* create_event and after a failed second commit as well.
C22_CreatorAlwaysHost ==
    \A ev \in events :
        CreatedByCreateEvent(ev) =>
            \E p \in participants :
                /\ p.event_id = ev.id
                /\ p.user_id = ev.created_by_user_id
                /\ p.role = "host"

\* C23: under any interleaving, an rsvp with a valid status of a logged-in
\* user for an existing event does not end in a storage error; afterwards
\* the pair (event, user) has exactly one row, with the status of the
\* request and with the role the pair's row had before, if it had one.
C23_RsvpOneRowPerPair ==
    [][ \A w \in Workers :
          (/\ reqs[w].op = "rsvp"
           /\ \E ev \in events : ev.id = reqs[w].event_id
           /\ rsvp_commit(w)) =>
              LET Rows(P) == {p \in P : /\ p.event_id = reqs[w].event_id
                                        /\ p.user_id = reqs[w].user_id}
              IN
              /\ last'.status = 200
              /\ Cardinality(Rows(participants')) = 1
              /\ \A p \in Rows(participants') :
                    /\ p.rsvp_status = reqs[w].status
                    /\ \A q \in Rows(participants) : q.role = p.role
      ]_vars

====
